---- MODULE Spec2Model ----
(***************************************************************************)
(* Model of rename_armature_to_ue_standard.py: the convention classifier,   *)
(* the mapping tables and resolvers, the name normalizer and the            *)
(* orchestrator pass over a rig of named bones.                             *)
(*                                                                          *)
(* A bone name is a sequence of one-character strings, so that prefix,      *)
(* suffix, replace, regular-expression and sort steps of the script are     *)
(* computed character by character as Python computes them.                 *)
(***************************************************************************)
EXTENDS Integers, Sequences, FiniteSets, TLC

(***************************************************************************)
(* Characters                                                               *)
(***************************************************************************)

\* The characters that occur in bone names, in code-point order (Python
\* compares strings by code point: '.' < '0'..'9' < ':' < 'A'..'Z' < '_' < 'a'..'z').
Chars == <<".","0","1","2","3","4","5","6","7","8","9",":","A","B","C","D","E","F","G","H","I","J","K","L","M","N","O","P","Q","R","S","T","U","V","W","X","Y","Z","_","a","b","c","d","e","f","g","h","i","j","k","l","m","n","o","p","q","r","s","t","u","v","w","x","y","z">>

Ord == [c \in {Chars[i] : i \in 1..Len(Chars)} |-> CHOOSE i \in 1..Len(Chars) : Chars[i] = c]

Digits == <<"0","1","2","3","4","5","6","7","8","9">>

IsDigit(c) == \E i \in 1..Len(Digits) : Digits[i] = c

DigitVal(c) == (CHOOSE i \in 1..Len(Digits) : Digits[i] = c) - 1

UpperChars == <<"A","B","C","D","E","F","G","H","I","J","K","L","M","N","O","P","Q","R","S","T","U","V","W","X","Y","Z">>

LowerChars == <<"a","b","c","d","e","f","g","h","i","j","k","l","m","n","o","p","q","r","s","t","u","v","w","x","y","z">>

\* \w of Python's re on these names: letters, digits and the underscore.
IsWordChar(c) ==
  \/ IsDigit(c)
  \/ c = "_"
  \/ \E i \in 1..Len(UpperChars) : UpperChars[i] = c \/ LowerChars[i] = c

LowerChar(c) ==
  IF \E i \in 1..Len(UpperChars) : UpperChars[i] = c
  THEN LowerChars[CHOOSE i \in 1..Len(UpperChars) : UpperChars[i] = c]
  ELSE c

(***************************************************************************)
(* Python string operations used by the script                              *)
(***************************************************************************)

StartsWith(s, p) == Len(s) >= Len(p) /\ SubSeq(s, 1, Len(p)) = p

EndsWith(s, p) == Len(s) >= Len(p) /\ SubSeq(s, Len(s) - Len(p) + 1, Len(s)) = p

\* str.replace(old, new): leftmost non-overlapping occurrences.
RECURSIVE Replace(_, _, _)
Replace(s, old, new) ==
  IF s = <<>> THEN <<>>
  ELSE IF StartsWith(s, old)
       THEN new \o Replace(SubSeq(s, Len(old) + 1, Len(s)), old, new)
       ELSE <<Head(s)>> \o Replace(Tail(s), old, new)

\* re.sub(r'\.(\d+)', r'_\1', s): a dot directly followed by a digit becomes
\* an underscore, the digits stay.
RECURSIVE ReSubDotDigits(_)
ReSubDotDigits(s) ==
  IF s = <<>> THEN <<>>
  ELSE IF Head(s) = "." /\ Len(s) >= 2 /\ IsDigit(s[2])
       THEN <<"_">> \o ReSubDotDigits(Tail(s))
       ELSE <<Head(s)>> \o ReSubDotDigits(Tail(s))

\* str.lower()
ToLower(s) == [i \in 1..Len(s) |-> LowerChar(s[i])]

\* re.sub(r'_+', '_', s)
RECURSIVE CollapseUnderscores(_)
CollapseUnderscores(s) ==
  IF s = <<>> THEN <<>>
  ELSE IF Head(s) = "_" /\ Len(s) >= 2 /\ s[2] = "_"
       THEN CollapseUnderscores(Tail(s))
       ELSE <<Head(s)>> \o CollapseUnderscores(Tail(s))

\* The decimal digits of n >= 0.
RECURSIVE DecStr(_)
DecStr(n) == IF n < 10 THEN <<Digits[n + 1]>> ELSE DecStr(n \div 10) \o <<Digits[(n % 10) + 1]>>

\* f"{n:0<w>d}": zero-padded to at least w digits.
RECURSIVE ZeroPad(_, _)
ZeroPad(s, w) == IF Len(s) >= w THEN s ELSE ZeroPad(<<"0">> \o s, w)

Fmt02d(n) == ZeroPad(DecStr(n), 2)

Fmt03d(n) == ZeroPad(DecStr(n), 3)

\* int(digits)
RECURSIVE ParseInt(_)
ParseInt(ds) == IF ds = <<>> THEN 0 ELSE 10 * ParseInt(SubSeq(ds, 1, Len(ds) - 1)) + DigitVal(ds[Len(ds)])

\* The longest run of digits at the start of s (what \d+ takes, or <<>>).
RECURSIVE LeadingDigits(_)
LeadingDigits(s) ==
  IF s # <<>> /\ IsDigit(Head(s)) THEN <<Head(s)>> \o LeadingDigits(Tail(s)) ELSE <<>>

\* The longest run of \w characters at the start of s.
RECURSIVE LeadingWord(_)
LeadingWord(s) ==
  IF s # <<>> /\ IsWordChar(Head(s)) THEN <<Head(s)>> \o LeadingWord(Tail(s)) ELSE <<>>

\* a < b as Python compares strings.
RECURSIVE StrLess(_, _)
StrLess(a, b) ==
  IF b = <<>> THEN FALSE
  ELSE IF a = <<>> THEN TRUE
  ELSE IF Head(a) = Head(b) THEN StrLess(Tail(a), Tail(b))
  ELSE Ord[Head(a)] < Ord[Head(b)]

\* sorted(S)[-1] for a non-empty set of strings.
StrMax(S) == CHOOSE m \in S : \A x \in S : x = m \/ StrLess(x, m)

(***************************************************************************)
(* Dictionaries: insertion-ordered sequences of <<key, value>>              *)
(***************************************************************************)

DictKeys(m) == {m[i][1] : i \in 1..Len(m)}

DictValues(m) == {m[i][2] : i \in 1..Len(m)}

\* m[k] = v: an existing key keeps its place, a new key goes last.
DictSet(m, k, v) ==
  IF k \in DictKeys(m)
  THEN [i \in 1..Len(m) |-> IF m[i][1] = k THEN <<k, v>> ELSE m[i]]
  ELSE Append(m, <<k, v>>)

RECURSIVE DictUpdate(_, _)
DictUpdate(m, other) ==
  IF other = <<>> THEN m
  ELSE DictUpdate(DictSet(m, Head(other)[1], Head(other)[2]), Tail(other))

RECURSIVE Flatten(_)
Flatten(ss) == IF ss = <<>> THEN <<>> ELSE Head(ss) \o Flatten(Tail(ss))

(***************************************************************************)
(* The static mapping tables, in the order the script writes them           *)
(***************************************************************************)

VRM_BASE_MAP ==
  << <<<<"h","i","p","s">>, <<"p","e","l","v","i","s">>>>,
     <<<<"s","p","i","n","e">>, <<"s","p","i","n","e","_","0","1">>>>,
     <<<<"n","e","c","k">>, <<"n","e","c","k","_","0","1">>>>,
     <<<<"h","e","a","d">>, <<"h","e","a","d">>>>,
     <<<<"s","h","o","u","l","d","e","r",".","L">>, <<"c","l","a","v","i","c","l","e","_","l">>>>,
     <<<<"s","h","o","u","l","d","e","r",".","R">>, <<"c","l","a","v","i","c","l","e","_","r">>>>,
     <<<<"u","p","p","e","r","_","a","r","m",".","L">>, <<"u","p","p","e","r","a","r","m","_","l">>>>,
     <<<<"u","p","p","e","r","_","a","r","m",".","R">>, <<"u","p","p","e","r","a","r","m","_","r">>>>,
     <<<<"l","o","w","e","r","_","a","r","m",".","L">>, <<"l","o","w","e","r","a","r","m","_","l">>>>,
     <<<<"l","o","w","e","r","_","a","r","m",".","R">>, <<"l","o","w","e","r","a","r","m","_","r">>>>,
     <<<<"h","a","n","d",".","L">>, <<"h","a","n","d","_","l">>>>,
     <<<<"h","a","n","d",".","R">>, <<"h","a","n","d","_","r">>>>,
     <<<<"u","p","p","e","r","_","l","e","g",".","L">>, <<"t","h","i","g","h","_","l">>>>,
     <<<<"u","p","p","e","r","_","l","e","g",".","R">>, <<"t","h","i","g","h","_","r">>>>,
     <<<<"l","o","w","e","r","_","l","e","g",".","L">>, <<"c","a","l","f","_","l">>>>,
     <<<<"l","o","w","e","r","_","l","e","g",".","R">>, <<"c","a","l","f","_","r">>>>,
     <<<<"f","o","o","t",".","L">>, <<"f","o","o","t","_","l">>>>,
     <<<<"f","o","o","t",".","R">>, <<"f","o","o","t","_","r">>>>,
     <<<<"t","o","e","s",".","L">>, <<"b","a","l","l","_","l">>>>,
     <<<<"t","o","e","s",".","R">>, <<"b","a","l","l","_","r">>>> >>

RIGIFY_BASE_MAP ==
  << <<<<"p","e","l","v","i","s",".","L">>, <<"p","e","l","v","i","s","_","l">>>>,
     <<<<"p","e","l","v","i","s",".","R">>, <<"p","e","l","v","i","s","_","r">>>>,
     <<<<"s","p","i","n","e">>, <<"s","p","i","n","e","_","0","1">>>>,
     <<<<"n","e","c","k">>, <<"n","e","c","k","_","0","1">>>>,
     <<<<"h","e","a","d">>, <<"h","e","a","d">>>>,
     <<<<"s","h","o","u","l","d","e","r",".","L">>, <<"c","l","a","v","i","c","l","e","_","l">>>>,
     <<<<"s","h","o","u","l","d","e","r",".","R">>, <<"c","l","a","v","i","c","l","e","_","r">>>>,
     <<<<"u","p","p","e","r","_","a","r","m",".","L">>, <<"u","p","p","e","r","a","r","m","_","l">>>>,
     <<<<"u","p","p","e","r","_","a","r","m",".","R">>, <<"u","p","p","e","r","a","r","m","_","r">>>>,
     <<<<"f","o","r","e","a","r","m",".","L">>, <<"l","o","w","e","r","a","r","m","_","l">>>>,
     <<<<"f","o","r","e","a","r","m",".","R">>, <<"l","o","w","e","r","a","r","m","_","r">>>>,
     <<<<"h","a","n","d",".","L">>, <<"h","a","n","d","_","l">>>>,
     <<<<"h","a","n","d",".","R">>, <<"h","a","n","d","_","r">>>>,
     <<<<"t","h","i","g","h",".","L">>, <<"t","h","i","g","h","_","l">>>>,
     <<<<"t","h","i","g","h",".","R">>, <<"t","h","i","g","h","_","r">>>>,
     <<<<"s","h","i","n",".","L">>, <<"c","a","l","f","_","l">>>>,
     <<<<"s","h","i","n",".","R">>, <<"c","a","l","f","_","r">>>>,
     <<<<"f","o","o","t",".","L">>, <<"f","o","o","t","_","l">>>>,
     <<<<"f","o","o","t",".","R">>, <<"f","o","o","t","_","r">>>>,
     <<<<"t","o","e",".","L">>, <<"b","a","l","l","_","l">>>>,
     <<<<"t","o","e",".","R">>, <<"b","a","l","l","_","r">>>>,
     <<<<"p","a","l","m",".","0","1",".","L">>, <<"i","n","d","e","x","_","m","e","t","a","c","a","r","p","a","l","_","l">>>>,
     <<<<"p","a","l","m",".","0","2",".","L">>, <<"m","i","d","d","l","e","_","m","e","t","a","c","a","r","p","a","l","_","l">>>>,
     <<<<"p","a","l","m",".","0","3",".","L">>, <<"r","i","n","g","_","m","e","t","a","c","a","r","p","a","l","_","l">>>>,
     <<<<"p","a","l","m",".","0","4",".","L">>, <<"p","i","n","k","y","_","m","e","t","a","c","a","r","p","a","l","_","l">>>>,
     <<<<"p","a","l","m",".","0","1",".","R">>, <<"i","n","d","e","x","_","m","e","t","a","c","a","r","p","a","l","_","r">>>>,
     <<<<"p","a","l","m",".","0","2",".","R">>, <<"m","i","d","d","l","e","_","m","e","t","a","c","a","r","p","a","l","_","r">>>>,
     <<<<"p","a","l","m",".","0","3",".","R">>, <<"r","i","n","g","_","m","e","t","a","c","a","r","p","a","l","_","r">>>>,
     <<<<"p","a","l","m",".","0","4",".","R">>, <<"p","i","n","k","y","_","m","e","t","a","c","a","r","p","a","l","_","r">>>> >>

MIXAMO_BASE_MAP ==
  << <<<<"H","i","p","s">>, <<"p","e","l","v","i","s">>>>,
     <<<<"S","p","i","n","e">>, <<"s","p","i","n","e","_","0","1">>>>,
     <<<<"S","p","i","n","e","1">>, <<"s","p","i","n","e","_","0","2">>>>,
     <<<<"S","p","i","n","e","2">>, <<"s","p","i","n","e","_","0","3">>>>,
     <<<<"N","e","c","k">>, <<"n","e","c","k","_","0","1">>>>,
     <<<<"H","e","a","d">>, <<"h","e","a","d">>>>,
     <<<<"L","e","f","t","S","h","o","u","l","d","e","r">>, <<"c","l","a","v","i","c","l","e","_","l">>>>,
     <<<<"R","i","g","h","t","S","h","o","u","l","d","e","r">>, <<"c","l","a","v","i","c","l","e","_","r">>>>,
     <<<<"L","e","f","t","A","r","m">>, <<"u","p","p","e","r","a","r","m","_","l">>>>,
     <<<<"R","i","g","h","t","A","r","m">>, <<"u","p","p","e","r","a","r","m","_","r">>>>,
     <<<<"L","e","f","t","F","o","r","e","A","r","m">>, <<"l","o","w","e","r","a","r","m","_","l">>>>,
     <<<<"R","i","g","h","t","F","o","r","e","A","r","m">>, <<"l","o","w","e","r","a","r","m","_","r">>>>,
     <<<<"L","e","f","t","H","a","n","d">>, <<"h","a","n","d","_","l">>>>,
     <<<<"R","i","g","h","t","H","a","n","d">>, <<"h","a","n","d","_","r">>>>,
     <<<<"L","e","f","t","U","p","L","e","g">>, <<"t","h","i","g","h","_","l">>>>,
     <<<<"R","i","g","h","t","U","p","L","e","g">>, <<"t","h","i","g","h","_","r">>>>,
     <<<<"L","e","f","t","L","e","g">>, <<"c","a","l","f","_","l">>>>,
     <<<<"R","i","g","h","t","L","e","g">>, <<"c","a","l","f","_","r">>>>,
     <<<<"L","e","f","t","F","o","o","t">>, <<"f","o","o","t","_","l">>>>,
     <<<<"R","i","g","h","t","F","o","o","t">>, <<"f","o","o","t","_","r">>>>,
     <<<<"L","e","f","t","T","o","e","B","a","s","e">>, <<"b","a","l","l","_","l">>>>,
     <<<<"R","i","g","h","t","T","o","e","B","a","s","e">>, <<"b","a","l","l","_","r">>>> >>

(***************************************************************************)
(* get_bone_mapping_and_type                                                *)
(***************************************************************************)

MixamoPrefix == <<"m","i","x","a","m","o","r","i","g",":">>

\* for original, target in MIXAMO_BASE_MAP.items(): mapping[f"mixamorig:{original}"] = target
MixamoPrefixedMap ==
  [i \in 1..Len(MIXAMO_BASE_MAP) |-> <<MixamoPrefix \o MIXAMO_BASE_MAP[i][1], MIXAMO_BASE_MAP[i][2]>>]

FingerUeNames == <<<<"t","h","u","m","b">>, <<"i","n","d","e","x">>, <<"m","i","d","d","l","e">>, <<"r","i","n","g">>, <<"p","i","n","k","y">>>>

MixamoFingerBases == <<<<"T","h","u","m","b">>, <<"I","n","d","e","x">>, <<"M","i","d","d","l","e">>, <<"R","i","n","g">>, <<"P","i","n","k","y">>>>

\* The loop over range(1, 5) writes entries for i <= 3 only.
MixamoFingerMap ==
  Flatten([k \in 1..15 |->
    LET f == ((k - 1) \div 3) + 1
        i == ((k - 1) % 3) + 1
    IN << <<<<"m","i","x","a","m","o","r","i","g",":","L","e","f","t","H","a","n","d">> \o MixamoFingerBases[f] \o DecStr(i),
            FingerUeNames[f] \o <<"_">> \o Fmt02d(i) \o <<"_","l">>>>,
          <<<<"m","i","x","a","m","o","r","i","g",":","R","i","g","h","t","H","a","n","d">> \o MixamoFingerBases[f] \o DecStr(i),
            FingerUeNames[f] \o <<"_">> \o Fmt02d(i) \o <<"_","r">>>> >>])

RigifyFingerParts == <<<<".","0","1">>, <<".","0","2">>, <<".","0","3">>>>

RigifyFingerMap ==
  Flatten([k \in 1..15 |->
    LET f == ((k - 1) \div 3) + 1
        i == ((k - 1) % 3) + 1
        stem == IF f = 1 THEN <<"t","h","u","m","b">> ELSE <<"f","_">> \o FingerUeNames[f]
    IN << <<stem \o RigifyFingerParts[i] \o <<".","L">>, FingerUeNames[f] \o <<"_">> \o Fmt02d(i) \o <<"_","l">>>>,
          <<stem \o RigifyFingerParts[i] \o <<".","R">>, FingerUeNames[f] \o <<"_">> \o Fmt02d(i) \o <<"_","r">>>> >>])

VrmFingerBases == <<<<"t","h","u","m","b">>, <<"i","n","d","e","x">>, <<"m","i","d","d","l","e">>, <<"r","i","n","g">>, <<"l","i","t","t","l","e">>>>

VrmFingerParts == <<<<"_","p","r","o","x","i","m","a","l">>, <<"_","i","n","t","e","r","m","e","d","i","a","t","e">>, <<"_","d","i","s","t","a","l">>>>

VrmFingerMap ==
  Flatten([k \in 1..15 |->
    LET f == ((k - 1) \div 3) + 1
        i == ((k - 1) % 3) + 1
    IN << <<VrmFingerBases[f] \o VrmFingerParts[i] \o <<".","L">>, FingerUeNames[f] \o <<"_">> \o Fmt02d(i) \o <<"_","l">>>>,
          <<VrmFingerBases[f] \o VrmFingerParts[i] \o <<".","R">>, FingerUeNames[f] \o <<"_">> \o Fmt02d(i) \o <<"_","r">>>> >>])

\* No finger key is a key of a base table, so every finger assignment
\* mapping[...] = ... appends a new entry after the base entries.
MixamoMapping == MixamoPrefixedMap \o MixamoFingerMap

RigifyMapping == RIGIFY_BASE_MAP \o RigifyFingerMap

VrmMapping == VRM_BASE_MAP \o VrmFingerMap

IsMixamo(bone_names) == \E name \in bone_names : StartsWith(name, MixamoPrefix)

\* any(check(bone_names) for check in rigify_specific_indicators)
IsLikelyRigify(bone_names) ==
  \/ \E name \in bone_names : StartsWith(name, <<"s","p","i","n","e",".">>) /\ name # <<"s","p","i","n","e">>
  \/ \E name \in bone_names : StartsWith(name, <<"p","a","l","m",".">>)
  \/ \E name \in bone_names : StartsWith(name, <<"f","_">>)
  \/ <<"f","o","r","e","a","r","m",".","L">> \in bone_names \/ <<"f","o","r","e","a","r","m",".","R">> \in bone_names
  \/ <<"s","h","i","n",".","L">> \in bone_names \/ <<"s","h","i","n",".","R">> \in bone_names

\* As get_bone_mapping_and_type, with the Rigify indicators checked first.
get_bone_mapping_and_type_RigifyFirst(bone_names) ==
  IF IsLikelyRigify(bone_names) THEN <<"Rigify", RigifyMapping>>
  ELSE IF IsMixamo(bone_names) THEN <<"Mixamo", MixamoMapping>>
  ELSE <<"VRM", VrmMapping>>

\* Returns <<skeleton_type, mapping>>.
get_bone_mapping_and_type(bone_names) ==
  IF IsMixamo(bone_names) THEN <<"Mixamo", MixamoMapping>>
  ELSE IF IsLikelyRigify(bone_names) THEN <<"Rigify", RigifyMapping>>
  ELSE <<"VRM", VrmMapping>>

(***************************************************************************)
(* Dynamic resolvers and the normalizer                                     *)
(***************************************************************************)

SpinePrefix == <<"s","p","i","n","e","_">>

find_chest_spine_number(bone_names, initial_mapping) ==
  LET existing_spines_in_mapping == {v \in DictValues(initial_mapping) : StartsWith(v, SpinePrefix)}
      existing_spines_in_bones == {n \in bone_names : StartsWith(n, SpinePrefix) /\ n # <<"s","p","i","n","e","_","0","0">>}
      all_existing_spines == existing_spines_in_mapping \cup existing_spines_in_bones
  IN IF all_existing_spines # {}
     THEN LET last_existing_spine == StrMax(all_existing_spines)
              digits == LeadingDigits(SubSeq(last_existing_spine, Len(SpinePrefix) + 1,
                                             Len(last_existing_spine)))
          IN IF digits # <<>>
             THEN SpinePrefix \o Fmt02d(ParseInt(digits) + 1)
             ELSE <<"s","p","i","n","e","_","0","2">>
     ELSE <<"s","p","i","n","e","_","0","2">>

\* for i in range(1, 10): stop at the first missing spine.00i.
RECURSIVE RigifySpineFrom(_, _)
RigifySpineFrom(bone_names, i) ==
  IF i <= 9 /\ (<<"s","p","i","n","e",".">> \o Fmt03d(i)) \in bone_names
  THEN << <<<<"s","p","i","n","e",".">> \o Fmt03d(i), SpinePrefix \o Fmt02d(i + 1)>> >> \o RigifySpineFrom(bone_names, i + 1)
  ELSE <<>>

find_rigify_spine_mapping(bone_names) == RigifySpineFrom(bone_names, 1)

\* As standardize_bone_name, without the lowercase step.
standardize_bone_name_NoLower(name) ==
  CollapseUnderscores(ReSubDotDigits(Replace(Replace(name, <<".","L">>, <<"_","l">>), <<".","R">>, <<"_","r">>)))

\* As standardize_bone_name, with the digits after a dot read as a number.
standardize_bone_name_Number(name) ==
  LET s == Replace(Replace(name, <<".","L">>, <<"_","l">>), <<".","R">>, <<"_","r">>)
      ps == {p \in 1..Len(s) : s[p] = "." /\ p < Len(s) /\ IsDigit(s[p + 1])}
  IN IF ps = {} THEN CollapseUnderscores(ToLower(s))
     ELSE LET p == CHOOSE q \in ps : \A r \in ps : q <= r
              ds == LeadingDigits(SubSeq(s, p + 1, Len(s)))
          IN CollapseUnderscores(ToLower(SubSeq(s, 1, p - 1) \o <<"_">> \o DecStr(ParseInt(ds))
                                         \o SubSeq(s, p + 1 + Len(ds), Len(s))))

standardize_bone_name(name) ==
  CollapseUnderscores(ToLower(ReSubDotDigits(Replace(Replace(name, <<".","L">>, <<"_","l">>), <<".","R">>, <<"_","r">>))))

LeftHandPrefix == <<"m","i","x","a","m","o","r","i","g",":","L","e","f","t","H","a","n","d">>

RightHandPrefix == <<"m","i","x","a","m","o","r","i","g",":","R","i","g","h","t","H","a","n","d">>

HasHandPrefix(name) == StartsWith(name, LeftHandPrefix) \/ StartsWith(name, RightHandPrefix)

\* re.match(r"mixamorig:(Left|Right)Hand(\w+)(\d+)", name) on a name that has
\* a hand prefix: <<>> when there is no match, else group(3).  \w+ is greedy,
\* so it ends right before the last digit of the word run that follows the
\* prefix, and \d+ is that digit.
FingerJointGroup(name) ==
  LET plen == IF StartsWith(name, LeftHandPrefix) THEN Len(LeftHandPrefix) ELSE Len(RightHandPrefix)
      w == LeadingWord(SubSeq(name, plen + 1, Len(name)))
      ps == {p \in 2..Len(w) : IsDigit(w[p])}
  IN IF ps = {} THEN <<>>
     ELSE LET p == CHOOSE q \in ps : \A r \in ps : r <= q IN <<w[p]>>

EndsWithEnd(name) == EndsWith(name, <<"_","E","n","d">>) \/ EndsWith(name, <<"E","n","d">>)

(***************************************************************************)
(* The host's rig: edit_bones, an ordered collection of bones.  A bone is   *)
(* [id, name, parent]; id is the bone's identity, parent the id of its      *)
(* parent bone or 0.                                                        *)
(***************************************************************************)

BoneNames(bones) == {bones[i].name : i \in 1..Len(bones)}

BoneIds(bones) == {bones[i].id : i \in 1..Len(bones)}

\* edit_bones[name]
BoneNamed(bones, name) == bones[CHOOSE i \in 1..Len(bones) : bones[i].name = name]

BoneWithId(bones, id) == bones[CHOOSE i \in 1..Len(bones) : bones[i].id = id]

\* len(bone.children)
NumChildren(bones, id) == Cardinality({i \in 1..Len(bones) : bones[i].parent = id})

\* The host keeps bone names unique: a name that another bone holds gets the
\* first free numeric suffix .001, .002, ... (a suffix the name already ends
\* with is counted on from).
NumberSuffixStart(name) ==
  LET ps == {p \in 1..Len(name) : name[p] = "." /\ p < Len(name)
                                  /\ \A q \in (p + 1)..Len(name) : IsDigit(name[q])}
  IN IF ps = {} THEN 0 ELSE CHOOSE p \in ps : TRUE

\* As UniqueName, without the uniqueness step.
UniqueName_Unchecked(name, taken) == name

UniqueName(name, taken) ==
  IF name \notin taken THEN name
  ELSE LET p == NumberSuffixStart(name)
           base == IF p = 0 THEN name ELSE SubSeq(name, 1, p - 1)
           num == IF p = 0 THEN 0 ELSE ParseInt(SubSeq(name, p + 1, Len(name)))
           k == CHOOSE j \in 1..(Cardinality(taken) + 1) :
                  /\ (base \o <<".">> \o Fmt03d(num + j)) \notin taken
                  /\ \A h \in 1..(j - 1) : (base \o <<".">> \o Fmt03d(num + h)) \in taken
       IN base \o <<".">> \o Fmt03d(num + k)

\* edit_bones[old_name].name = new_name
HostRename(bones, old_name, new_name) ==
  LET others == {bones[i].name : i \in {j \in 1..Len(bones) : bones[j].name # old_name}}
  IN [i \in 1..Len(bones) |->
        IF bones[i].name = old_name
        THEN [bones[i] EXCEPT !.name = UniqueName(new_name, others)]
        ELSE bones[i]]

\* edit_bones.remove(edit_bones[bone_name]): the bone goes, its children
\* lose their parent.
HostRemove(bones, bone_name) ==
  LET gone == BoneNamed(bones, bone_name).id
      IsKept(b) == b.id # gone
      kept == SelectSeq(bones, IsKept)
  IN [i \in 1..Len(kept) |->
        IF kept[i].parent = gone THEN [kept[i] EXCEPT !.parent = 0] ELSE kept[i]]

(***************************************************************************)
(* rename_armature_to_ue_standard_and_remove_mixamo_ends: mapping and       *)
(* partition (lines 163-216)                                                *)
(***************************************************************************)

ChestName == <<"c","h","e","s","t">>

NoName == <<>>

\* chest_target for a rig with names bone_names, classified and mapped as
\* r = <<skeleton_type, initial_mapping>>; NoName when the chest branch is
\* not taken.
ChestTarget(bone_names, r) ==
  IF r[1] = "VRM" /\ ChestName \in bone_names
  THEN find_chest_spine_number(bone_names, r[2])
  ELSE NoName

FinalMapping(bone_names, r) ==
  IF r[1] = "VRM" /\ ChestName \in bone_names
  THEN DictSet(r[2], ChestName, ChestTarget(bone_names, r))
  ELSE IF r[1] = "Rigify"
       THEN DictUpdate(r[2], find_rigify_spine_mapping(bone_names))
       ELSE r[2]

\* The entries of the final mapping whose source name is in the rig, in the
\* mapping's order (both branches of the script build the same list).
RenamePairs(bone_names, final_mapping) ==
  LET InRig(e) == e[1] \in bone_names
  IN SelectSeq(final_mapping, InRig)

\* Mixamo only: the names scheduled for deletion, in rig order.
IsScheduledForDeletion(bones, b) ==
  IF HasHandPrefix(b.name)
  THEN FingerJointGroup(b.name) = <<"4">>
  ELSE EndsWithEnd(b.name) /\ NumChildren(bones, b.id) = 0

BonesToDelete(bones, skeleton_type) ==
  IF skeleton_type = "Mixamo"
  THEN LET Sched(b) == IsScheduledForDeletion(bones, b)
           sel == SelectSeq(bones, Sched)
       IN [i \in 1..Len(sel) |-> sel[i].name]
  ELSE <<>>

IsMixamoEnd(bone_name) == HasHandPrefix(bone_name) \/ EndsWithEnd(bone_name)

\* all_mapped_names is set(final_mapping.keys()).
BonesToStandardize(bones, skeleton_type, all_mapped_names) ==
  LET bone_names == BoneNames(bones)
      std == [i \in 1..Len(bones) |-> <<bones[i].name, standardize_bone_name(bones[i].name)>>]
      Wanted(e) ==
        /\ e[1] \notin all_mapped_names
        /\ ~(skeleton_type = "Mixamo" /\ IsMixamoEnd(e[1]))
        /\ e[2] # e[1]
        /\ e[2] \notin bone_names
  IN SelectSeq(std, Wanted)

(***************************************************************************)
(* State                                                                    *)
(***************************************************************************)

VARIABLES
  edit_bones,            \* the rig
  active,                \* type of bpy.context.active_object: "NONE", "MESH", "ARMATURE"
  mode,                  \* bpy.context.mode
  pc,                    \* "idle", "mode", "rename", "standardize", "delete", "restore", "done"
  idx,                   \* position in the list the current loop walks (from 1)
  skeleton_type,
  chest_target,
  rename_pairs,
  bones_to_delete,
  bones_to_standardize,
  was_edit_mode,
  passes,                \* invocations so far
  completed,             \* invocations that ran to the end on a rig
  outcome,               \* of the latest invocation: "none", "invalid", "running", "applied"
  start_bones,           \* the rig when the latest invocation began
  prior_mode             \* the mode when the latest invocation began

vars == <<edit_bones, active, mode, pc, idx, skeleton_type, chest_target, rename_pairs,
          bones_to_delete, bones_to_standardize, was_edit_mode, passes, completed,
          outcome, start_bones, prior_mode>>

locals == <<skeleton_type, chest_target, rename_pairs, bones_to_delete, bones_to_standardize>>

\* Bounds of the model.
MaxBones == 3

MaxPasses == 2

\* The bone names the host draws from when it builds a rig.
Universe ==
  << <<"m","i","x","a","m","o","r","i","g",":","L","e","f","t","H","a","n","d","T","h","u","m","b","4">>, <<"m","i","x","a","m","o","r","i","g",":","H","e","a","d","T","o","p","_","E","n","d">>, <<"m","i","x","a","m","o","r","i","g",":","L","e","f","t","H","a","n","d","T","h","u","m","b","_","E","n","d">>,
     <<"m","i","x","a","m","o","r","i","g",":","H","i","p","s">>, <<"h","i","p","s">>, <<"p","e","l","v","i","s">>, <<"P","e","l","v","i","s">>, <<"c","h","e","s","t">>, <<"s","p","i","n","e","_","9">>, <<"s","p","i","n","e","_","1","0">>,
     <<"P","r","o","p",".","0","0","2">>, <<"f","o","r","e","a","r","m",".","L">>, <<"s","h","i","n",".","R">>, <<"s","p","i","n","e",".","0","0","1">>, <<"p","a","l","m",".","0","1",".","L">>, <<"f","_","i","n","d","e","x",".","0","1",".","L">> >>

\* The host contexts: an armature can be active in object, pose or edit mode.
Contexts ==
  { <<"NONE", "OBJECT">>, <<"MESH", "OBJECT">>,
    <<"ARMATURE", "OBJECT">>, <<"ARMATURE", "POSE">>, <<"ARMATURE", "EDIT_ARMATURE">> }

Init ==
  /\ edit_bones = <<>>
  /\ active = "NONE"
  /\ mode = "OBJECT"
  /\ pc = "idle"
  /\ idx = 1
  /\ skeleton_type = "none"
  /\ chest_target = NoName
  /\ rename_pairs = <<>>
  /\ bones_to_delete = <<>>
  /\ bones_to_standardize = <<>>
  /\ was_edit_mode = FALSE
  /\ passes = 0
  /\ completed = 0
  /\ outcome = "none"
  /\ start_bones = <<>>
  /\ prior_mode = "OBJECT"

(***************************************************************************)
(* The host (the user in the 3D editor) between invocations                 *)
(***************************************************************************)

\* A bone is added to the rig, as a root or extruded from the bone added
\* last (its child).  Bones are added in the order of Universe, so a rig is
\* listed in that order.
AddBone ==
  /\ pc = "idle"
  /\ passes = 0
  /\ Len(edit_bones) < MaxBones
  /\ \E n \in 1..Len(Universe), p \in {0, Len(edit_bones)} :
       /\ \A i \in 1..Len(edit_bones) : \E m \in 1..(n - 1) : Universe[m] = edit_bones[i].name
       /\ edit_bones' = Append(edit_bones, [id |-> Len(edit_bones) + 1, name |-> Universe[n], parent |-> p])
  /\ UNCHANGED <<active, mode, pc, idx, locals, was_edit_mode, passes, completed, outcome,
                 start_bones, prior_mode>>

\* The active object or the mode is changed before the pass is triggered.
SwitchContext ==
  /\ pc = "idle"
  /\ passes = 0
  /\ \E c \in Contexts :
       /\ <<active, mode>> # c
       /\ active' = c[1]
       /\ mode' = c[2]
  /\ UNCHANGED <<edit_bones, pc, idx, locals, was_edit_mode, passes, completed, outcome,
                 start_bones, prior_mode>>

(***************************************************************************)
(* The pass                                                                 *)
(***************************************************************************)

\* Lines 158-216: the precondition, the classification, the final mapping
\* and the three work lists.
Invoke ==
  /\ pc \in {"idle", "done"}
  /\ passes < MaxPasses
  /\ passes' = passes + 1
  /\ start_bones' = edit_bones
  /\ prior_mode' = mode
  /\ IF active # "ARMATURE"
     THEN /\ pc' = "done"
          /\ outcome' = "invalid"
          /\ UNCHANGED <<locals, idx>>
     ELSE LET bone_names == BoneNames(edit_bones)
              r == get_bone_mapping_and_type(bone_names)
              final_mapping == FinalMapping(bone_names, r)
          IN /\ skeleton_type' = r[1]
             /\ chest_target' = ChestTarget(bone_names, r)
             /\ rename_pairs' = RenamePairs(bone_names, final_mapping)
             /\ bones_to_delete' = BonesToDelete(edit_bones, r[1])
             /\ bones_to_standardize' = BonesToStandardize(edit_bones, r[1], DictKeys(final_mapping))
             /\ pc' = "mode"
             /\ outcome' = "running"
             /\ idx' = 1
  /\ UNCHANGED <<edit_bones, active, mode, was_edit_mode, completed>>

\* Where the pass goes when the loops before `phase' are done: to the first
\* loop from `phase' on that has an item (1 rename_pairs, 2 bones_to_standardize,
\* 3 bones_to_delete), else to the mode restoration.
PhaseFrom(phase) ==
  IF phase <= 1 /\ rename_pairs # <<>> THEN "rename"
  ELSE IF phase <= 2 /\ bones_to_standardize # <<>> THEN "standardize"
  ELSE IF phase <= 3 /\ bones_to_delete # <<>> THEN "delete"
  ELSE "restore"

\* Lines 219-221.
EnterEditMode ==
  /\ pc = "mode"
  /\ was_edit_mode' = (mode = "EDIT_ARMATURE")
  /\ mode' = "EDIT_ARMATURE"
  /\ pc' = PhaseFrom(1)
  /\ idx' = 1
  /\ UNCHANGED <<edit_bones, active, locals, passes, completed, outcome, start_bones, prior_mode>>

\* Lines 223-226: one turn of the loop over rename_pairs.
ApplyRename ==
  /\ pc = "rename"
  /\ LET old_name == rename_pairs[idx][1]
         new_name == rename_pairs[idx][2]
     IN edit_bones' = IF old_name \in BoneNames(edit_bones)
                      THEN HostRename(edit_bones, old_name, new_name)
                      ELSE edit_bones
  /\ IF idx < Len(rename_pairs)
     THEN idx' = idx + 1 /\ pc' = pc
     ELSE idx' = 1 /\ pc' = PhaseFrom(2)
  /\ UNCHANGED <<active, mode, locals, was_edit_mode, passes, completed, outcome, start_bones,
                 prior_mode>>

\* Lines 228-233: one turn of the loop over bones_to_standardize.
ApplyStandardize ==
  /\ pc = "standardize"
  /\ LET old_name == bones_to_standardize[idx][1]
         new_name == bones_to_standardize[idx][2]
     IN edit_bones' = IF old_name \in BoneNames(edit_bones) /\ new_name \notin BoneNames(edit_bones)
                      THEN HostRename(edit_bones, old_name, new_name)
                      ELSE edit_bones
  /\ IF idx < Len(bones_to_standardize)
     THEN idx' = idx + 1 /\ pc' = pc
     ELSE idx' = 1 /\ pc' = PhaseFrom(3)
  /\ UNCHANGED <<active, mode, locals, was_edit_mode, passes, completed, outcome, start_bones,
                 prior_mode>>

\* Lines 235-238: one turn of the loop over bones_to_delete.
ApplyDelete ==
  /\ pc = "delete"
  /\ LET bone_name == bones_to_delete[idx]
     IN edit_bones' = IF bone_name \in BoneNames(edit_bones)
                      THEN HostRemove(edit_bones, bone_name)
                      ELSE edit_bones
  /\ IF idx < Len(bones_to_delete)
     THEN idx' = idx + 1 /\ pc' = pc
     ELSE idx' = 1 /\ pc' = PhaseFrom(4)
  /\ UNCHANGED <<active, mode, locals, was_edit_mode, passes, completed, outcome, start_bones,
                 prior_mode>>

\* Lines 240-243.
RestoreMode ==
  /\ pc = "restore"
  /\ mode' = IF was_edit_mode THEN mode ELSE "OBJECT"
  /\ pc' = "done"
  /\ outcome' = "applied"
  /\ completed' = completed + 1
  /\ UNCHANGED <<edit_bones, active, idx, locals, was_edit_mode, passes, start_bones, prior_mode>>

Pass == Invoke \/ EnterEditMode \/ ApplyRename \/ ApplyStandardize \/ ApplyDelete \/ RestoreMode

Next == AddBone \/ SwitchContext \/ Pass

Spec == Init /\ [][Next]_vars

(***************************************************************************)
(* Properties                                                               *)
(***************************************************************************)

BoneNameList(bones) == [i \in 1..Len(bones) |-> bones[i].name]

DistinctNames(bones) ==
  \A i, j \in 1..Len(bones) : i # j => bones[i].name # bones[j].name

Elements(s) == {s[i] : i \in 1..Len(s)}

\* The latest invocation passed the precondition (it is running or has finished).
OnRig == outcome \in {"running", "applied"}

Finished == pc = "done" /\ outcome = "applied"

C2_CollidingRenameSkipped ==
  [][ ( \/ /\ pc = "rename"
           /\ rename_pairs[idx][2] \in BoneNames(edit_bones)
        \/ /\ pc = "standardize"
           /\ bones_to_standardize[idx][2] \in BoneNames(edit_bones) )
      => edit_bones' = edit_bones ]_vars

C3_AutoRigIndicator(name) ==
  \/ StartsWith(name, <<"s","p","i","n","e",".">>)
  \/ StartsWith(name, <<"p","a","l","m",".">>)
  \/ StartsWith(name, <<"f","_">>)
  \/ name \in {<<"f","o","r","e","a","r","m",".","L">>, <<"f","o","r","e","a","r","m",".","R">>, <<"s","h","i","n",".","L">>, <<"s","h","i","n",".","R">>}

C3_Expected(bone_names) ==
  IF \E n \in bone_names : StartsWith(n, <<"m","i","x","a","m","o","r","i","g",":">>) THEN "Mixamo"
  ELSE IF \E n \in bone_names : C3_AutoRigIndicator(n) THEN "Rigify"
  ELSE "VRM"

\* C3: when the pass has classified the rig, the classification is Mixamo
\* when any name has the namespace prefix "mixamorig:", else Rigify when any
\* name is a segmented-spine, palm or f_ name or one of forearm.L,
\* forearm.R, shin.L, shin.R, else VRM.
C3_ClassificationByPrecedence ==
  pc = "mode" => skeleton_type = C3_Expected(BoneNames(start_bones))

\* A rig with both the namespace prefix and an auto-rig indicator was
\* classified Mixamo.
C3_Witness ==
  /\ pc = "mode"
  /\ skeleton_type = "Mixamo"
  /\ \E n \in BoneNames(start_bones) : C3_AutoRigIndicator(n)

\* C4: when the pass has run twice in succession, the second pass has
\* changed no bone name and deleted no bone.
C4_SecondPassChangesNothing ==
  (Finished /\ completed >= 2) => edit_bones = start_bones

(***************************************************************************)
(* Scenario A: the pass on one given rig                                    *)
(***************************************************************************)

ScenarioANames ==
  << <<"H","i","p","s">>, <<"S","p","i","n","e">>, <<"L","e","f","t","A","r","m">>, <<"L","e","f","t","F","o","r","e","A","r","m">>, <<"L","e","f","t","H","a","n","d">>,
     <<"m","i","x","a","m","o","r","i","g",":","L","e","f","t","H","a","n","d","T","h","u","m","b","1">>, <<"m","i","x","a","m","o","r","i","g",":","L","e","f","t","H","a","n","d","T","h","u","m","b","2">>,
     <<"m","i","x","a","m","o","r","i","g",":","L","e","f","t","H","a","n","d","T","h","u","m","b","3">>, <<"m","i","x","a","m","o","r","i","g",":","L","e","f","t","H","a","n","d","T","h","u","m","b","4">> >>

\* The rigs of Scenario A: the nine bones, each a root or the child of the
\* bone listed before it.
ScenarioARigs ==
  { [i \in 1..Len(ScenarioANames) |->
       [id |-> i, name |-> ScenarioANames[i], parent |-> IF i > 1 /\ child[i] THEN i - 1 ELSE 0]] :
      child \in [2..Len(ScenarioANames) -> BOOLEAN] }

InitScenarioA ==
  /\ edit_bones \in ScenarioARigs
  /\ \E c \in Contexts : active = c[1] /\ mode = c[2]
  /\ pc = "idle"
  /\ idx = 1
  /\ skeleton_type = "none"
  /\ chest_target = NoName
  /\ rename_pairs = <<>>
  /\ bones_to_delete = <<>>
  /\ bones_to_standardize = <<>>
  /\ was_edit_mode = FALSE
  /\ passes = 0
  /\ completed = 0
  /\ outcome = "none"
  /\ start_bones = <<>>
  /\ prior_mode = "OBJECT"

SpecScenarioA == InitScenarioA /\ [][Pass]_vars

\* The names of the bones with ids 1..n, NoName for a bone that is gone.
NamesById(bones, n) ==
  [i \in 1..n |-> IF i \in BoneIds(bones) THEN BoneWithId(bones, i).name ELSE NoName]

\* C5 (as stated): after the pass on the rig of Scenario A the rig is
\* classified Mixamo, "Hips", "Spine", "LeftArm", "LeftForeArm", "LeftHand"
\* are named "pelvis", "spine_01", "upperarm_l", "lowerarm_l", "hand_l",
\* the thumb joints 1..3 are named "thumb_01_l".."thumb_03_l" and
\* "mixamorig:LeftHandThumb4" is deleted.
C5_ScenarioA_AsStated ==
  (Finished /\ completed = 1) =>
     /\ skeleton_type = "Mixamo"
     /\ NamesById(edit_bones, 9) =
          << <<"p","e","l","v","i","s">>, <<"s","p","i","n","e","_","0","1">>, <<"u","p","p","e","r","a","r","m","_","l">>, <<"l","o","w","e","r","a","r","m","_","l">>, <<"h","a","n","d","_","l">>,
             <<"t","h","u","m","b","_","0","1","_","l">>, <<"t","h","u","m","b","_","0","2","_","l">>, <<"t","h","u","m","b","_","0","3","_","l">>, NoName >>

\* C5 (amended): the bones without the namespace prefix are not keys of the
\* Mixamo mapping; the pass only normalizes them ("hips", "spine",
\* "leftarm", "leftforearm", "lefthand"); the thumb joints are renamed and
\* the fourth joint is deleted as stated.
C5_ScenarioA_Amended ==
  (Finished /\ completed = 1) =>
     /\ skeleton_type = "Mixamo"
     /\ NamesById(edit_bones, 9) =
          << <<"h","i","p","s">>, <<"s","p","i","n","e">>, <<"l","e","f","t","a","r","m">>, <<"l","e","f","t","f","o","r","e","a","r","m">>, <<"l","e","f","t","h","a","n","d">>,
             <<"t","h","u","m","b","_","0","1","_","l">>, <<"t","h","u","m","b","_","0","2","_","l">>, <<"t","h","u","m","b","_","0","3","_","l">>, NoName >>

\* The first pass over the rig of Scenario A has finished and has deleted
\* the fourth thumb joint.
C5_Witness ==
  /\ Finished
  /\ completed = 1
  /\ BoneNameList(start_bones) = ScenarioANames
  /\ 9 \notin BoneIds(edit_bones)

(***************************************************************************)
(* The chest resolver, the normalizer, deletions and the mode               *)
(***************************************************************************)

\* A name of the form spine_<number>.
C6_IsSpineNumbered(name) ==
  /\ StartsWith(name, SpinePrefix)
  /\ Len(name) > Len(SpinePrefix)
  /\ \A p \in (Len(SpinePrefix) + 1)..Len(name) : IsDigit(name[p])

C6_SpineNumbers(bones) ==
  { ParseInt(SubSeq(n, Len(SpinePrefix) + 1, Len(n))) :
      n \in {m \in DictValues(VrmMapping) \cup BoneNames(bones) : C6_IsSpineNumbered(m)} }

C6_ExpectedTarget(bones) ==
  IF C6_SpineNumbers(bones) = {} THEN <<"s","p","i","n","e","_","0","2">>
  ELSE SpinePrefix \o Fmt02d(1 + (CHOOSE k \in C6_SpineNumbers(bones) :
                                    \A h \in C6_SpineNumbers(bones) : h <= k))

\* C6: in a rig classified VRM that has a bone "chest", the target computed
\* for "chest" is spine_<n+1>, n the highest spine-segment number among the
\* static mapping's targets and the spine_<number> names of the rig
\* (spine_02 when there is none), and no other entry of the final mapping
\* has that target.
C6_ChestTargetIsNextSpine ==
  (OnRig /\ skeleton_type = "VRM" /\ ChestName \in BoneNames(start_bones)) =>
     /\ chest_target = C6_ExpectedTarget(start_bones)
     /\ \A e \in Elements(FinalMapping(BoneNames(start_bones),
                                       get_bone_mapping_and_type(BoneNames(start_bones)))) :
          e[1] # ChestName => e[2] # chest_target

C7_PropName == <<"P","r","o","p",".","0","0","2">>

\* A bone that began the pass as "Prop.002" ends it as `target', unless
\* another bone holds that name.
C7_PropEndsAs(target) ==
  \A i \in 1..Len(start_bones) :
     start_bones[i].name = C7_PropName =>
        \/ /\ start_bones[i].id \in BoneIds(edit_bones)
           /\ BoneWithId(edit_bones, start_bones[i].id).name = target
        \/ \E j \in 1..Len(edit_bones) :
             edit_bones[j].id # start_bones[i].id /\ edit_bones[j].name = target

C8_OnlyLeavesDeleted ==
  OnRig =>
     /\ \A i \in 1..Len(start_bones) :
          start_bones[i].id \notin BoneIds(edit_bones) => NumChildren(start_bones, start_bones[i].id) = 0
     /\ skeleton_type \in {"Rigify", "VRM"} => BoneIds(edit_bones) = BoneIds(start_bones)
     /\ BoneIds(edit_bones) \subseteq BoneIds(start_bones)
     /\ \A i \in 1..Len(edit_bones) :
          LET was == BoneWithId(start_bones, edit_bones[i].id).parent
          IN /\ was \in BoneIds(edit_bones) => edit_bones[i].parent = was
             /\ edit_bones[i].parent # 0 => edit_bones[i].parent = was

C9_IsFourthJoint(name) ==
  \E f \in 1..Len(MixamoFingerBases) :
     \/ name = <<"m","i","x","a","m","o","r","i","g",":","L","e","f","t","H","a","n","d">> \o MixamoFingerBases[f] \o <<"4">>
     \/ name = <<"m","i","x","a","m","o","r","i","g",":","R","i","g","h","t","H","a","n","d">> \o MixamoFingerBases[f] \o <<"4">>

\* C9: in a rig classified Mixamo every fourth-joint finger bone and every
\* leaf bone whose name ends with "End" is scheduled for deletion, keeps
\* its name until the deletions, and is gone when the pass has finished.
C9_EndBonesDeleted ==
  (OnRig /\ skeleton_type = "Mixamo") =>
     \A i \in 1..Len(start_bones) :
        LET b == start_bones[i]
        IN (C9_IsFourthJoint(b.name) \/ (EndsWith(b.name, <<"E","n","d">>) /\ NumChildren(start_bones, b.id) = 0))
           => /\ b.name \in Elements(bones_to_delete)
              /\ b.id \in BoneIds(edit_bones) => BoneWithId(edit_bones, b.id).name = b.name
              /\ pc = "done" => b.id \notin BoneIds(edit_bones)

\* C10: renames and deletions are applied in edit mode, the mode after the
\* pass is the mode before it, and an invocation without an active armature
\* changes neither the mode nor a bone.
C10_ModeRestored ==
  /\ pc \in {"rename", "standardize", "delete"} => mode = "EDIT_ARMATURE"
  /\ pc = "done" => mode = prior_mode
  /\ (pc = "done" /\ outcome = "invalid") => edit_bones = start_bones

====
